---- MODULE Spec2Model ----
(***************************************************************************)
(* Model of the upstream uploader: the three surfaces that push customer   *)
(* records to the data-entry REST API.                                     *)
(*   cli      src/upstream_integration.py  (push_customer, push_batch)     *)
(*   desktop  src/upstream_ui.py           (Tk form, worker threads)       *)
(*   web      src/upstream_streamlit.py    (script rerun per interaction)  *)
(* One behaviour runs one of the three programs; `program` is fixed by     *)
(* Init.  Text is modelled as a sequence of characters so that strip()     *)
(* and rstrip("/") are computed, not assumed.                              *)
(***************************************************************************)
EXTENDS Integers, Sequences, FiniteSets, TLC

VARIABLES
    program,        \* which of the three programs this behaviour runs
    var_url,        \* Base URL entry (desktop: self.var_url, web: base_url)
    var_key,        \* API Key entry  (desktop: self.var_key, web: api_key)
    csv_data,       \* desktop: self._csv_data, web: data
    var_row_count,  \* desktop: self.var_row_count (the number it shows)
    tree,           \* desktop: rows of the preview Treeview
    btn_push_csv,   \* desktop: state of the Push All Records button
    uiQueue,        \* desktop: callbacks scheduled with self.after(0, ...)
    log,            \* desktop: the end of the Activity Log widget, the line
                    \* see("end") shows; <<>> when the log is empty
    lastDialog,     \* title of the last message box / banner shown
    progress,       \* web: <<i, N>> shown by the progress bar, <<>> if none
    loads,          \* number of files opened so far (bounded by MaxLoads)
    run,            \* the batch runs (worker threads), by thread number
    single          \* the single-record submission (Submit Record, or a
                    \* direct call of push_customer)

vars == <<program, var_url, var_key, csv_data, var_row_count,
          tree, btn_push_csv, uiQueue, log, lastDialog, progress, loads, run,
          single>>

\* ---------------------------------------------------------------- bounds
MaxWorkers == 2     \* batch runs ever started in one behaviour
MaxSubmissions == 2 \* submissions (batch or single) made in one behaviour
MaxLoads == 2       \* files ever opened in one behaviour
MaxQueue == 1       \* callbacks pending in the Tk queue before a thread that
                    \* wants to schedule another one has to wait

\* ------------------------------------------------------------------ text
Min(a, b) == IF a < b THEN a ELSE b

IsSpace(c) == c = " "

RECURSIVE lstrip(_)
lstrip(s) == IF s # <<>> /\ IsSpace(Head(s)) THEN lstrip(Tail(s)) ELSE s

RECURSIVE rstrip(_)
rstrip(s) ==
    IF s # <<>> /\ IsSpace(s[Len(s)]) THEN rstrip(SubSeq(s, 1, Len(s) - 1)) ELSE s

\* str.strip()
strip(s) == rstrip(lstrip(s))

\* str.rstrip("/")
RECURSIVE rstripSlash(_)
rstripSlash(s) ==
    IF s # <<>> /\ s[Len(s)] = "/" THEN rstripSlash(SubSeq(s, 1, Len(s) - 1)) ELSE s

\* ---------------------------------------------------------------- fields
FIELDS == <<"first_name", "last_name", "road", "city", "state", "zip",
            "country", "phone", "dob">>

\* the second component of each FIELDS pair: the form's label of the field
FieldLabels == <<"First Name *", "Last Name *", "Road / Street *", "City *",
                 "State *", "ZIP Code *", "Country *", "Phone *",
                 "Date of Birth (MM/DD/YYYY) *">>

Label(key) == FieldLabels[CHOOSE n \in 1..Len(FIELDS) : FIELDS[n] = key]

CSV_COLUMNS == FIELDS

REQUIRED_COLS == FIELDS

FieldSet == {FIELDS[n] : n \in 1..Len(FIELDS)}

DEFAULT_BASE_URL == <<"h">>

DEFAULT_API_KEY == <<"k">>

\* the configurations an operator may type: the defaults, and a URL with a
\* trailing slash together with a key padded with a blank
ConfigChoices == {<<DEFAULT_BASE_URL, DEFAULT_API_KEY>>, <<<<"g", "/">>, <<" ", "j">>>>}

\* ------------------------------------------------------- sample customers
Alice == [f \in FieldSet |-> <<"a">>]

Bob == [f \in FieldSet |-> <<"b">>]

\* the "intentionally bad record" of the demo: road is empty
Charlie == [Alice EXCEPT !["first_name"] = <<"c">>, !["road"] = <<>>]

\* Missing stopping at the first empty field
MissingFirstOnly(customer) ==
    SubSeq(SelectSeq(FIELDS, LAMBDA f : customer[f] = <<>>), 1, 1)

\* a customer is a mapping of the nine fields; Missing lists the empty ones
Missing(customer) ==
    SelectSeq(FIELDS, LAMBDA f : customer[f] = <<>>)

\* ------------------------------------------------------------- CSV files
\* A row as csv.DictReader yields it: `cols` are the header's columns with
\* the row's text, `none` the header columns the row is too short to fill
\* (DictReader's restval, None).
Row(cols, none) == [cols |-> cols, none |-> none]

RowOf(customer) == Row(customer, {})

\* Bob's row with blanks around the first name
RowPadded == Row([Bob EXCEPT !["first_name"] = <<" ", "b", " ">>], {})

\* a row of a file whose header has no dob column; its city is one blank
RowNoDob ==
    Row([f \in FieldSet \ {"dob"} |-> IF f = "city" THEN <<" ">> ELSE <<"a">>], {})

RowShort == Row([f \in FieldSet |-> IF f = "dob" THEN <<>> ELSE <<"a">>], {"dob"})

FileNames == {"unreadable.csv", "empty.csv", "two.csv", "nodob.csv",
              "short.csv"}

Readable(path) == path # "unreadable.csv"

Rows(path) ==
    CASE path = "two.csv"    -> <<RowOf(Charlie), RowPadded>>
      [] path = "nodob.csv"  -> <<RowNoDob>>
      [] path = "short.csv"  -> <<RowOf(Alice), RowShort>>
      [] OTHER               -> <<>>

\* row.get(col, "") is None: the following .strip() raises AttributeError
GetIsNone(row, col) == col \in row.none

\* row.get(col, "")
Get(row, col) == IF col \in DOMAIN row.cols THEN row.cols[col] ELSE <<>>

\* [c for c in CSV_COLUMNS if c not in rows[0]]
MissingCols(rows) == SelectSeq(CSV_COLUMNS, LAMBDA c : c \notin DOMAIN rows[1].cols)

\* the comprehension raises when some cell of a required column is None
NormaliseRaises(rows) ==
    \E n \in 1..Len(rows) : \E c \in FieldSet : GetIsNone(rows[n], c)

\* [{col: row.get(col, "").strip() for col in CSV_COLUMNS} for row in rows]
Normalise(rows) ==
    [n \in 1..Len(rows) |-> [c \in FieldSet |-> strip(Get(rows[n], c))]]

\* ------------------------------------------------------------ the server
\* The endpoint is a black box.  An HTTP response has a status, a body text
\* and, when the text parses as JSON, the parsed object `obj` (its keys and
\* the values the code reads); a transport failure is an exception raised
\* by requests.post instead of a response.
NoObj == [keys |-> {}, id |-> 0, first_name |-> <<>>, last_name |-> <<>>]

FullObj(customer) ==
    [keys |-> {"id", "first_name", "last_name", "created_at"} \cup FieldSet,
     id |-> 7, first_name |-> customer["first_name"],
     last_name |-> customer["last_name"]]

\* a JSON object that lacks "id"
PartialObj(customer) ==
    [keys |-> {"first_name", "last_name"}, id |-> 0,
     first_name |-> customer["first_name"], last_name |-> customer["last_name"]]

Http(status, text, parses, obj) ==
    [kind |-> "http", status |-> status, text |-> text, parses |-> parses,
     obj |-> obj, exc |-> ""]

TransportError(exc) ==
    [kind |-> "error", status |-> 0, text |-> "", parses |-> FALSE,
     obj |-> NoObj, exc |-> exc]

\* what requests.post raises on a connection error, a DNS failure or a
\* timeout: a requests.RequestException (an OSError), not a RuntimeError
TransportExceptions == {"ConnectionError"}

Responses(customer) ==
    {Http(201, "{record}", TRUE, FullObj(customer)),
     Http(201, "{no id}", TRUE, PartialObj(customer)),
     Http(201, "<html>", FALSE, NoObj),
     Http(422, "zip invalid", FALSE, NoObj)}
    \cup {TransportError(e) : e \in TransportExceptions}

\* ------------------------------------------------------------ exceptions
\* `except RuntimeError` catches RuntimeError only; requests' exceptions,
\* JSONDecodeError (a ValueError) and KeyError (a LookupError) are not
\* subclasses of it.  `except Exception` catches all of them.
IsInstance(exc, cls) == cls = "Exception" \/ exc = cls

\* ---------------------------------------------------------------- results
\* What a call returns or raises.  `msg` is the exception's text: the
\* pieces the f-string is built from (status 0 = no status in the text);
\* `prints` are the lines the call printed on the way.
Returned(obj) ==
    [kind |-> "return", value |-> obj, exc |-> "",
     msg |-> [prefix |-> "", status |-> 0, text |-> ""], prints |-> <<>>]

Raised(exc, prefix, status, text) ==
    [kind |-> "raise", value |-> NoObj, exc |-> exc,
     msg |-> [prefix |-> prefix, status |-> status, text |-> text],
     prints |-> <<>>]

\* response.json()
Json(resp) ==
    IF resp.parses THEN Returned(resp.obj)
    ELSE Raised("JSONDecodeError", "", 0, "")

\* created['id'], created['first_name'], created['last_name']
ReadsRaise(obj) == ~ ({"id", "first_name", "last_name"} \subseteq obj.keys)

\* ---------------------------------------------------------------- output
\* One line of output (a log_cb message, a printed line, a log_lines entry):
\* its tag, what it says, and the values formatted into it (0 / <<>> when
\* the line does not carry the value).
Line(tag, kind, index, total, status, text, id, name) ==
    [tag |-> tag, kind |-> kind, index |-> index, total |-> total,
     status |-> status, text |-> text, id |-> id, name |-> name]

Name(d) == <<d["first_name"], d["last_name"]>>

ObjName(obj) == <<obj.first_name, obj.last_name>>

\* --------------------------------------------------------- push_customer
\* The part of push_customer that follows requests.post: `resp` is what the
\* post produced (a response, or the exception it raised, which passes
\* through push_customer untouched).
\* push_customer with the status code left out of the error's text
push_customer_ui_text_only(resp) ==
    IF resp.kind = "error" THEN Raised(resp.exc, "", 0, "")
    ELSE IF resp.status = 201 THEN Json(resp)
    ELSE Raised("RuntimeError", "", 0, resp.text)

push_customer_ui(resp) ==
    IF resp.kind = "error" THEN Raised(resp.exc, "", 0, "")
    ELSE IF resp.status = 201 THEN Json(resp)
    ELSE Raised("RuntimeError", "HTTP", resp.status, resp.text)

push_customer_streamlit(resp) ==
    IF resp.kind = "error" THEN Raised(resp.exc, "", 0, "")
    ELSE IF resp.status = 201 THEN Json(resp)
    ELSE Raised("RuntimeError", "HTTP", resp.status, resp.text)

push_customer_integration(resp) ==
    IF resp.kind = "error" THEN Raised(resp.exc, "", 0, "")
    ELSE IF resp.status = 201 THEN
        LET created == Json(resp) IN
        IF created.kind = "raise" THEN created
        ELSE IF ReadsRaise(created.value) THEN Raised("KeyError", "", 0, "")
        ELSE [created EXCEPT !.prints =
                 <<Line("stdout", "[OK] Customer created", 0, 0, 0, "",
                        created.value.id, ObjName(created.value))>>]
    ELSE [Raised("RuntimeError", "Failed to push customer", 0, resp.text)
             EXCEPT !.prints =
                 <<Line("stdout", "[FAIL] HTTP", 0, 0, resp.status, resp.text,
                        0, <<>>)>>]

push_customer(prog, resp) ==
    CASE prog = "desktop" -> push_customer_ui(resp)
      [] prog = "web"     -> push_customer_streamlit(resp)
      [] OTHER            -> push_customer_integration(resp)

\* the exception class the batch loops catch: `except RuntimeError`
BatchHandler == "RuntimeError"

\* ------------------------------------------------------------- the runs
\* A run of push_batch (of the page's loop): its arguments, its locals
\* (i, ok, created, and `res`, what the last push_customer call returned or
\* raised), where it stands (pc), the exception that ended it (exc), and
\* what it did so far: the requests it sent (posts), what requests.post
\* produced for each (got), the lines it wrote (out).
NoResult ==
    [kind |-> "none", value |-> NoObj, exc |-> "",
     msg |-> [prefix |-> "", status |-> 0, text |-> ""], prints |-> <<>>]

IdleRun ==
    [pc |-> "unborn", customers |-> <<>>, base_url |-> <<>>, api_key |-> <<>>,
     i |-> 1, ok |-> 0, res |-> NoResult, created |-> <<>>, exc |-> "",
     posts |-> <<>>, got |-> <<>>, out |-> <<>>]

Workers == 1..MaxWorkers

Active(r) == r.pc \in {"loop", "post"}

\* Request built from the Base URL entry as it reads now, not from the
\* value the run was started with
RequestLive(r) ==
    [index |-> r.i, url |-> rstripSlash(var_url) \o <<"/api/customers">>,
     key |-> r.api_key, body |-> r.customers[r.i]]

\* the request requests.post sends
Request(r) ==
    [index |-> r.i, url |-> r.base_url \o <<"/api/customers">>,
     key |-> r.api_key, body |-> r.customers[r.i]]

\* room in the Tk queue for the callbacks a step schedules
QueueHasRoom == Len(uiQueue) < MaxQueue

\* self._log(message, tag): self.after(0, _append)
Appends(lines) ==
    [n \in 1..Len(lines) |-> [kind |-> "append", line |-> lines[n], ok |-> 0, total |-> 0]]

\* -------------------------------------------------------------- push_batch
\* what a step of a run leaves alone
RunFrame ==
    UNCHANGED <<program, single, var_url, var_key, csv_data, var_row_count, tree,
                btn_push_csv, log, lastDialog, loads>>

\* the line written before record i is pushed (the web loop writes none)
PushingLine(r) ==
    CASE program = "desktop" ->
           <<Line("info", "Pushing", r.i, Len(r.customers), 0, "", 0,
                  Name(r.customers[r.i]))>>
      [] program = "cli" ->
           <<Line("stdout", "Pushing record", r.i, Len(r.customers), 0, "", 0, <<>>)>>
      [] OTHER -> <<>>

\* run w writes `lines` (through log_cb on the desktop) and goes on as r2
Step(w, r2, lines) ==
    /\ run' = [run EXCEPT ![w] = [r2 EXCEPT !.out = @ \o lines]]
    /\ uiQueue' = IF program = "desktop" THEN uiQueue \o Appends(lines)
                  ELSE uiQueue

\* StartRecord with the records pipelined: the request for record i + 1
\* leaves together with the one for record i.
StartRecordEager(w) ==
    /\ run[w].pc = "loop"
    /\ run[w].i <= Len(run[w].customers)
    /\ QueueHasRoom
    /\ LET r == run[w]
           both == IF r.i < Len(r.customers)
                   THEN <<Request(r), Request([r EXCEPT !.i = @ + 1])>>
                   ELSE <<Request(r)>>
       IN Step(w, [r EXCEPT !.posts = @ \o both, !.pc = "post"], PushingLine(r))
    /\ progress' = progress
    /\ RunFrame

\* StartRecord with the validator of the single-record form in front of
\* it: a record with an empty field is reported and skipped, not sent.
StartRecordValidating(w) ==
    /\ run[w].pc = "loop"
    /\ run[w].i <= Len(run[w].customers)
    /\ QueueHasRoom
    /\ LET r == run[w] IN
       IF Missing(r.customers[r.i]) # <<>>
       THEN Step(w, [r EXCEPT !.i = @ + 1],
                 <<Line("error", "Missing fields", r.i, Len(r.customers), 0, "",
                        0, <<>>)>>)
       ELSE Step(w, [r EXCEPT !.posts = Append(@, Request(r)), !.pc = "post"],
                 PushingLine(r))
    /\ progress' = progress
    /\ RunFrame

\* Top of the loop body for record i: the "Pushing" line (desktop, cli),
\* then push_customer's requests.post, which blocks the run.
StartRecord(w) ==
    /\ run[w].pc = "loop"
    /\ run[w].i <= Len(run[w].customers)
    /\ QueueHasRoom
    /\ LET r == run[w] IN
       Step(w, [r EXCEPT !.posts = Append(@, Request(r)), !.pc = "post"],
            PushingLine(r))
    /\ progress' = progress
    /\ RunFrame

\* the line reporting a created record
CreatedLine(r, obj) ==
    CASE program = "desktop" ->
           <<Line("ok", "Created", 0, 0, 0, "", obj.id, ObjName(obj))>>
      [] program = "web" ->
           <<Line("log_lines", "Created", r.i, Len(r.customers), 0, "", obj.id,
                  Name(r.customers[r.i]))>>
      [] OTHER -> <<>>

\* the line reporting a caught RuntimeError
FailedLine(r, msg) ==
    CASE program = "desktop" ->
           <<Line("error", "Failed", 0, 0, msg.status, msg.text, 0, <<>>)>>
      [] program = "web" ->
           <<Line("log_lines", "Failed", r.i, Len(r.customers), msg.status,
                  msg.text, 0, Name(r.customers[r.i]))>>
      [] OTHER ->
           <<Line("stdout", "Skipping record", r.i, 0, msg.status, msg.text,
                  0, <<>>)>>

\* what the outstanding requests.post of run w may produce
Pending(w) ==
    IF run[w].pc = "post" THEN Responses(run[w].customers[run[w].i]) ELSE {}

\* the run with the answer `resp` and push_customer's result `res` noted
Answered(r, resp, res) == [r EXCEPT !.got = Append(@, resp), !.res = res]

\* progress.progress(i / len(data)) at the end of the web loop's body
ShowProgress(r) ==
    progress' = IF program = "web" THEN <<r.i, Len(r.customers)>> ELSE progress

\* RecordCreated without its log_cb call: the record is counted, no line
\* is written
RecordCreatedSilent(w, resp, res) ==
    /\ res.kind = "return"
    /\ program = "cli" \/ ~ReadsRaise(res.value)
    /\ LET r == Answered(run[w], resp, res) IN
       /\ Step(w, [r EXCEPT !.ok = IF program = "cli" THEN @ ELSE @ + 1,
                            !.created = IF program = "cli"
                                        THEN Append(@, res.value) ELSE @,
                            !.i = @ + 1, !.pc = "loop"],
               <<>>)
       /\ ShowProgress(r)

\* push_customer returned and the created record reads well: the success
\* line, the count, the next record
RecordCreated(w, resp, res) ==
    /\ res.kind = "return"
    /\ program = "cli" \/ ~ReadsRaise(res.value)
    /\ LET r == Answered(run[w], resp, res) IN
       /\ Step(w, [r EXCEPT !.ok = IF program = "cli" THEN @ ELSE @ + 1,
                            !.created = IF program = "cli"
                                        THEN Append(@, res.value) ELSE @,
                            !.i = @ + 1, !.pc = "loop"],
               res.prints \o CreatedLine(r, res.value))
       /\ ShowProgress(r)

\* RecordFailed with `ok += 1` moved after the try statement: failures are
\* counted too
RecordFailedCounting(w, resp, res) ==
    /\ res.kind = "raise"
    /\ IsInstance(res.exc, BatchHandler)
    /\ LET r == Answered(run[w], resp, res) IN
       /\ Step(w, [r EXCEPT !.ok = @ + 1, !.i = @ + 1, !.pc = "loop"],
               res.prints \o FailedLine(r, res.msg))
       /\ ShowProgress(r)

\* push_customer raised what the loop catches: the failure line, the next
\* record
RecordFailed(w, resp, res) ==
    /\ res.kind = "raise"
    /\ IsInstance(res.exc, BatchHandler)
    /\ LET r == Answered(run[w], resp, res) IN
       /\ Step(w, [r EXCEPT !.i = @ + 1, !.pc = "loop"],
               res.prints \o FailedLine(r, res.msg))
       /\ ShowProgress(r)

\* RecordFailed with a retry: the failed record is pushed again
RecordRetried(w, resp, res) ==
    /\ res.kind = "raise"
    /\ IsInstance(res.exc, BatchHandler)
    /\ LET r == Answered(run[w], resp, res) IN
       /\ Step(w, [r EXCEPT !.pc = "loop"], res.prints \o FailedLine(r, res.msg))
       /\ ShowProgress(r)

\* anything else leaves push_batch: the thread (the script) dies
RunDies(w, resp, res) ==
    /\ \/ res.kind = "raise" /\ ~IsInstance(res.exc, BatchHandler)
       \/ res.kind = "return" /\ program # "cli" /\ ReadsRaise(res.value)
    /\ LET r == Answered(run[w], resp, res) IN
       Step(w, [r EXCEPT !.exc = IF res.kind = "raise" THEN res.exc
                                 ELSE "KeyError",
                         !.pc = "crashed"],
            res.prints)
    /\ progress' = progress

\* HandleResponse with a loop that tries a failed record again
HandleResponseRetrying(w, resp) ==
    /\ run[w].pc = "post"
    /\ QueueHasRoom
    /\ LET res == push_customer(program, resp) IN
       \/ RecordCreated(w, resp, res)
       \/ RecordRetried(w, resp, res)
       \/ RunDies(w, resp, res)
    /\ RunFrame

\* requests.post returns `resp` or raises it (within timeout=10), and the
\* run goes on through the rest of the loop body.
HandleResponse(w, resp) ==
    /\ run[w].pc = "post"
    /\ QueueHasRoom
    /\ LET res == push_customer(program, resp) IN
       \/ RecordCreated(w, resp, res)
       \/ RecordFailed(w, resp, res)
       \/ RunDies(w, resp, res)
    /\ RunFrame

\* number of records the run reports as created
OkCount(r) == IF program = "cli" THEN Len(r.created) ELSE r.ok

\* Finish with the share of created records, ok / N, worked out before
\* the tally is reported: an empty batch dies of the division
FinishWithRatio(w) ==
    /\ run[w].pc = "loop"
    /\ run[w].i > Len(run[w].customers)
    /\ QueueHasRoom
    /\ LET r == run[w]
           N == Len(r.customers)
           tag == IF OkCount(r) = N THEN "ok" ELSE "warn"
           last == CASE program = "desktop" ->
                          <<Line(tag, "Batch complete", 0, N, 0, "", OkCount(r), <<>>)>>
                     [] program = "cli" ->
                          <<Line("stdout", "Done.", 0, N, 0, "", OkCount(r), <<>>)>>
                     [] OTHER -> <<>>
       IN /\ run' = [run EXCEPT ![w] =
                     IF N = 0
                     THEN [r EXCEPT !.exc = "ZeroDivisionError", !.pc = "crashed"]
                     ELSE [r EXCEPT !.out = @ \o last, !.pc = "done"]]
          /\ uiQueue' = IF program = "desktop"
                        THEN uiQueue \o Appends(last)
                             \o <<[kind |-> "done", line |-> last[1],
                                   ok |-> OkCount(r), total |-> N]>>
                        ELSE uiQueue
          /\ progress' = IF program = "web" THEN <<>> ELSE progress
          /\ lastDialog' = IF program = "web"
                           THEN (IF OkCount(r) = N THEN "success" ELSE "warning")
                           ELSE lastDialog
    /\ UNCHANGED <<program, single, var_url, var_key, csv_data,
                   var_row_count, tree, btn_push_csv, log, loads>>

\* After the loop: done_cb(ok, len(customers)) (desktop), the "Done." line
\* and the return (cli), progress.empty() and the banner (web).
Finish(w) ==
    /\ run[w].pc = "loop"
    /\ run[w].i > Len(run[w].customers)
    /\ QueueHasRoom
    /\ LET r == run[w]
           N == Len(r.customers)
           tag == IF OkCount(r) = N THEN "ok" ELSE "warn"
           last == CASE program = "desktop" ->
                          <<Line(tag, "Batch complete", 0, N, 0, "", OkCount(r), <<>>)>>
                     [] program = "cli" ->
                          <<Line("stdout", "Done.", 0, N, 0, "", OkCount(r), <<>>)>>
                     [] OTHER -> <<>>
       IN /\ run' = [run EXCEPT ![w] = [r EXCEPT !.out = @ \o last, !.pc = "done"]]
          /\ uiQueue' = IF program = "desktop"
                        THEN uiQueue \o Appends(last)
                             \o <<[kind |-> "done", line |-> last[1],
                                   ok |-> OkCount(r), total |-> N]>>
                        ELSE uiQueue
          /\ progress' = IF program = "web" THEN <<>> ELSE progress
          /\ lastDialog' = IF program = "web"
                           THEN (IF OkCount(r) = N THEN "success" ELSE "warning")
                           ELSE lastDialog
    /\ UNCHANGED <<program, single, var_url, var_key, csv_data,
                   var_row_count, tree, btn_push_csv, log, loads>>

\* ------------------------------------------------------- desktop actions
\* the next thread number threading.Thread(...).start() gets
Unborn == {w \in Workers : run[w].pc = "unborn"}

NextWorker == CHOOSE w \in Unborn : \A v \in Unborn : w <= v

\* the submissions made so far: the batch runs and the single submission
Submissions ==
    Cardinality(Workers \ Unborn) + (IF single.pc # "idle" THEN 1 ELSE 0)

MaySubmit == Submissions < MaxSubmissions

\* the operator types a Base URL and an API Key
EditConfig(cfg) ==
    /\ program \in {"desktop", "web"}
    /\ program = "web" => \A w \in Workers : ~Active(run[w])
    /\ var_url' = cfg[1]
    /\ var_key' = cfg[2]
    /\ UNCHANGED <<program, single, csv_data, var_row_count, tree,
                   btn_push_csv, uiQueue, log, lastDialog, progress, loads, run>>

\* _browse_csv with a file chosen, then _load_csv(path)
LoadCsv(path) ==
    /\ program = "desktop"
    /\ loads < MaxLoads
    /\ QueueHasRoom
    /\ loads' = loads + 1
    /\ LET rows == Rows(path)
           data == Normalise(rows)
           total == Len(data)
       IN \/ \* open() or the reader raises: "CSV Error"
             /\ ~Readable(path)
             /\ lastDialog' = "CSV Error"
             /\ UNCHANGED <<csv_data, tree, var_row_count, btn_push_csv, uiQueue>>
          \/ \* no data rows: "Empty File"
             /\ Readable(path) /\ rows = <<>>
             /\ lastDialog' = "Empty File"
             /\ UNCHANGED <<csv_data, tree, var_row_count, btn_push_csv, uiQueue>>
          \/ \* a None cell: .strip() raises AttributeError out of the handler
             /\ Readable(path) /\ rows # <<>> /\ NormaliseRaises(rows)
             /\ lastDialog' = IF MissingCols(rows) # <<>> THEN "Missing Columns"
                              ELSE lastDialog
             /\ UNCHANGED <<csv_data, tree, var_row_count, btn_push_csv, uiQueue>>
          \/ \* the rows are loaded
             /\ Readable(path) /\ rows # <<>> /\ ~NormaliseRaises(rows)
             /\ lastDialog' = IF MissingCols(rows) # <<>> THEN "Missing Columns"
                              ELSE lastDialog
             /\ csv_data' = data
             /\ tree' = SubSeq(data, 1, Min(5, total))
             /\ var_row_count' = total
             /\ btn_push_csv' = "normal"
             /\ uiQueue' = uiQueue \o
                    Appends(<<Line("info", "Loaded", 0, total, 0, path, 0, <<>>)>>)
    /\ UNCHANGED <<program, single, var_url, var_key, log, progress, run>>

\* _push_csv: the Push All Records button
PushCsv ==
    /\ program = "desktop"
    /\ btn_push_csv = "normal"
    /\ QueueHasRoom
    /\ csv_data # <<>>
    /\ Unborn # {}
    /\ MaySubmit
    /\ btn_push_csv' = "disabled"
    /\ uiQueue' = uiQueue \o
           Appends(<<Line("warn", "Starting batch push", 0, Len(csv_data), 0, "",
                          0, <<>>)>>)
    /\ run' = [run EXCEPT ![NextWorker] =
                  [IdleRun EXCEPT !.pc = "loop", !.customers = csv_data,
                                  !.base_url = rstripSlash(var_url),
                                  !.api_key = strip(var_key)]]
    /\ UNCHANGED <<program, single, var_url, var_key, csv_data,
                   var_row_count, tree, log, lastDialog, progress, loads>>

\* _clear_log
ClearLog ==
    /\ program = "desktop"
    /\ log # <<>>
    /\ log' = <<>>
    /\ UNCHANGED <<program, single, var_url, var_key, csv_data,
                   var_row_count, tree, btn_push_csv, uiQueue, lastDialog,
                   progress, loads, run>>

\* the Tk main loop runs the oldest callback scheduled with after(0, ...)
RunCallback ==
    /\ program = "desktop"
    /\ uiQueue # <<>>
    /\ uiQueue' = Tail(uiQueue)
    /\ \/ \* _append
          /\ Head(uiQueue).kind = "append"
          /\ log' = <<Head(uiQueue).line>>
          /\ UNCHANGED <<lastDialog, btn_push_csv>>
       \/ \* done's lambda: the message box, then the button
          /\ Head(uiQueue).kind = "done"
          /\ lastDialog' = "Batch Complete"
          /\ btn_push_csv' = "normal"
          /\ UNCHANGED log
       \/ \* the lambda of task()'s success branch
          /\ Head(uiQueue).kind = "showinfo"
          /\ lastDialog' = "Success"
          /\ UNCHANGED <<log, btn_push_csv>>
       \/ \* the lambda of task()'s except branch reads `exc`, a name the
          \* thread unbinds when it leaves the except block: the box shows
          \* if the lambda runs first, else the lambda raises NameError
          /\ Head(uiQueue).kind = "showerror"
          /\ lastDialog' \in {"Error", lastDialog}
          /\ UNCHANGED <<log, btn_push_csv>>
    /\ UNCHANGED <<program, single, var_url, var_key, csv_data,
                   var_row_count, tree, progress, loads, run>>

\* ------------------------------------------------------------ cli actions
BASE_URL == DEFAULT_BASE_URL

API_KEY == DEFAULT_API_KEY

\* the lists push_batch is called with: the demo's sample_customers, an
\* empty list, a single bad record
CliInputs == {<<Alice, Bob, Charlie>>, <<>>, <<Charlie>>}

\* push_batch(customers) is entered
CliMain(customers) ==
    /\ program = "cli"
    /\ run[1].pc = "unborn"
    /\ run' = [run EXCEPT ![1] =
                  [IdleRun EXCEPT !.pc = "loop", !.customers = customers,
                                  !.base_url = BASE_URL, !.api_key = API_KEY]]
    /\ UNCHANGED <<program, single, var_url, var_key, csv_data,
                   var_row_count, tree, btn_push_csv, uiQueue, log, lastDialog,
                   progress, loads>>

\* ------------------------------------------------------------ web actions
\* a file is uploaded: the script reruns and normalises its rows
WebUpload(path) ==
    /\ program = "web"
    /\ \A w \in Workers : ~Active(run[w])
    /\ loads < MaxLoads
    /\ loads' = loads + 1
    /\ progress' = <<>>
    /\ LET rows == Rows(path) IN
       \/ \* the read fails (st.error, rows = []) or there are no rows
          /\ ~Readable(path) \/ rows = <<>>
          /\ csv_data' = <<>>
          /\ lastDialog' = "no data rows"
       \/ \* a None cell: .strip() raises AttributeError, the script stops
          /\ Readable(path) /\ rows # <<>> /\ NormaliseRaises(rows)
          /\ csv_data' = <<>>
          /\ lastDialog' = "AttributeError"
       \/ /\ Readable(path) /\ rows # <<>> /\ ~NormaliseRaises(rows)
          /\ csv_data' = Normalise(rows)
          /\ lastDialog' = IF MissingCols(rows) # <<>> THEN "Missing columns"
                           ELSE "loaded"
    /\ UNCHANGED <<program, single, var_url, var_key, var_row_count, tree, btn_push_csv,
                   uiQueue, log, run>>

\* the Push All Records button of the page: the loop runs in the script
WebPush ==
    /\ program = "web"
    /\ csv_data # <<>>
    /\ \A w \in Workers : ~Active(run[w])
    /\ Unborn # {}
    /\ MaySubmit
    /\ progress' = <<0, Len(csv_data)>>
    /\ run' = [run EXCEPT ![NextWorker] =
                  [IdleRun EXCEPT !.pc = "loop", !.customers = csv_data,
                                  !.base_url = rstripSlash(var_url),
                                  !.api_key = var_key]]
    /\ UNCHANGED <<program, single, var_url, var_key, csv_data,
                   var_row_count, tree, btn_push_csv, uiQueue, log, lastDialog,
                   loads>>

\* ------------------------------------------------ single-record submission
\* The single-record path: what was typed (form), the stripped record
\* (customer), the validator's list (missing), the captured configuration,
\* the request sent and what came back, push_customer's result, and the
\* signals given to the caller: the outcome the path ends in.
IdleSingle ==
    [pc |-> "idle", form |-> <<>>, customer |-> <<>>, missing |-> <<>>,
     base_url |-> <<>>,
     api_key |-> <<>>, posts |-> <<>>, got |-> <<>>, res |-> NoResult,
     signals |-> <<>>]

\* what the operator typed: Bob with blanks around the first name; Alice
\* with a blank city and no date of birth; nothing at all
FormPadded == [Bob EXCEPT !["first_name"] = <<" ", "b", " ">>,
                          !["zip"] = <<"b", " ">>]

FormBlankCity == [Alice EXCEPT !["city"] = <<" ">>, !["dob"] = <<>>]

FormEmpty == [f \in FieldSet |-> <<>>]

Forms == {FormPadded, FormBlankCity, FormEmpty}

\* Stripped without the strip(): the record is what was typed
Unstripped(form) == [f \in FieldSet |-> form[f]]

\* {key: var.get().strip() for key, var in self.entry_vars.items()}
Stripped(form) == [f \in FieldSet |-> strip(form[f])]

\* [label for key, label in FIELDS if not customer.get(key)]
MissingLabels(customer) ==
    [n \in 1..Len(Missing(customer)) |-> Label(Missing(customer)[n])]

\* a signal to the caller: success with the created record, or a failure
\* with its reason (the missing fields, or the exception and its text)
Success(obj) ==
    [kind |-> "success", value |-> obj, missing |-> <<>>, exc |-> "",
     msg |-> [prefix |-> "", status |-> 0, text |-> ""]]

Failure(missing, exc, msg) ==
    [kind |-> "failure", value |-> NoObj, missing |-> missing, exc |-> exc,
     msg |-> msg]

\* the handler of the batch loop in the place of SingleHandler
SingleHandlerNarrow == "RuntimeError"

\* the exception class the single-record handlers catch: `except Exception`
SingleHandler == "Exception"

\* What the try block of the form's handler ends in: push_customer's
\* result, or the KeyError of reading created['id'] in the success
\* message.
TryResult(res) ==
    IF res.kind = "return" /\ ReadsRaise(res.value)
    THEN Raised("KeyError", "", 0, "")
    ELSE res

\* the request of the single-record path
SingleRequest(customer, base_url, api_key) ==
    [index |-> 1, url |-> base_url \o <<"/api/customers">>, key |-> api_key,
     body |-> customer]

\* a dialog scheduled with self.after(0, lambda: messagebox...)
Dialog(kind, line) == <<[kind |-> kind, line |-> line, ok |-> 0, total |-> 0]>>

SingleFrame ==
    UNCHANGED <<program, var_url, var_key, csv_data, var_row_count, tree,
                btn_push_csv, log, progress, loads, run>>

\* _submit_single up to the start of the thread, and the thread's
\* requests.post
SubmitSingle(form) ==
    /\ program = "desktop"
    /\ single.pc = "idle"
    /\ MaySubmit
    /\ QueueHasRoom
    /\ LET customer == Stripped(form)
           missing == MissingLabels(customer)
           base_url == rstripSlash(var_url)
           api_key == strip(var_key)
       IN IF missing # <<>>
          THEN /\ lastDialog' = "Missing Fields"
               /\ single' = [single EXCEPT
                      !.pc = "done", !.form = form, !.customer = customer,
                      !.missing = missing,
                      !.signals = <<Failure(missing, "", NoResult.msg)>>]
               /\ uiQueue' = uiQueue
          ELSE /\ lastDialog' = lastDialog
               /\ uiQueue' = uiQueue \o
                      Appends(<<Line("info", "Submitting", 0, 0, 0, "", 0,
                                     Name(customer))>>)
               /\ single' = [single EXCEPT
                      !.pc = "post", !.form = form, !.customer = customer,
                      !.base_url = base_url, !.api_key = api_key,
                      !.posts = <<SingleRequest(customer, base_url, api_key)>>]
    /\ SingleFrame

\* what the outstanding requests.post of the single submission may produce
SinglePending ==
    IF single.pc = "post" THEN Responses(single.customer) ELSE {}

\* str(exc): the text of a RuntimeError is its message, that of any other
\* exception is the library's own, which names the failure
Str(res) ==
    IF res.exc = "RuntimeError" THEN res.msg
    ELSE [prefix |-> "", status |-> 0, text |-> res.exc]

\* task(): requests.post returns or raises `resp`; the thread logs the
\* outcome and schedules the message box
SingleResponse(resp) ==
    /\ program = "desktop"
    /\ single.pc = "post"
    /\ QueueHasRoom
    /\ LET res == TryResult(push_customer_ui(resp))
           s == [single EXCEPT !.got = <<resp>>, !.res = res, !.pc = "done"]
       IN IF res.kind = "return"
          THEN LET line == Line("ok", "Created", 0, 0, 0, "", res.value.id,
                                ObjName(res.value))
               IN /\ single' = [s EXCEPT !.signals = <<Success(res.value)>>]
                  /\ uiQueue' = uiQueue \o Appends(<<line>>)
                                        \o Dialog("showinfo", line)
          ELSE IF IsInstance(res.exc, SingleHandler)
          THEN LET line == Line("error", "Error", 0, 0, Str(res).status,
                                Str(res).text, 0, <<>>)
               IN /\ single' = [s EXCEPT
                         !.signals = <<Failure(<<>>, res.exc, Str(res))>>]
                  /\ uiQueue' = uiQueue \o Appends(<<line>>)
                                        \o Dialog("showerror", line)
          ELSE \* not caught: the thread dies without a word
               /\ single' = [s EXCEPT !.pc = "crashed"]
               /\ uiQueue' = uiQueue
    /\ lastDialog' = lastDialog
    /\ SingleFrame

\* the Submit Record button of the page: one run of the script
WebSubmit(form) ==
    /\ program = "web"
    /\ single.pc = "idle"
    /\ MaySubmit
    /\ \A w \in Workers : ~Active(run[w])
    /\ LET customer == Stripped(form)
           missing == Missing(customer)
           base_url == rstripSlash(var_url)
       IN IF missing # <<>>
          THEN /\ lastDialog' = "st.error"
               /\ single' = [single EXCEPT
                      !.pc = "done", !.form = form, !.customer = customer,
                      !.missing = missing,
                      !.signals = <<Failure(missing, "", NoResult.msg)>>]
          ELSE \E resp \in Responses(customer) :
               LET res == TryResult(push_customer_streamlit(resp))
                   s == [single EXCEPT
                            !.form = form, !.customer = customer, !.base_url = base_url,
                            !.api_key = var_key,
                            !.posts = <<SingleRequest(customer, base_url, var_key)>>,
                            !.got = <<resp>>, !.res = res, !.pc = "done"]
               IN IF res.kind = "return"
                  THEN /\ lastDialog' = "st.success"
                       /\ single' = [s EXCEPT !.signals = <<Success(res.value)>>]
                  ELSE IF IsInstance(res.exc, SingleHandler)
                  THEN /\ lastDialog' = "st.error"
                       /\ single' = [s EXCEPT
                              !.signals = <<Failure(<<>>, res.exc, Str(res))>>]
                  ELSE /\ lastDialog' = res.exc
                       /\ single' = [s EXCEPT !.pc = "crashed"]
    /\ UNCHANGED <<program, var_url, var_key, csv_data, var_row_count, tree,
                   btn_push_csv, uiQueue, log, progress, loads, run>>

\* a caller calls push_customer(customer) of the integration module: the
\* signal is what the call returns or raises
CliPushCustomer(customer) ==
    /\ program = "cli"
    /\ single.pc = "idle"
    /\ \A w \in Workers : ~Active(run[w])
    /\ \E resp \in Responses(customer) :
       LET res == push_customer_integration(resp)
           s == [single EXCEPT
                    !.form = customer, !.customer = customer, !.base_url = BASE_URL,
                    !.api_key = API_KEY,
                    !.posts = <<SingleRequest(customer, BASE_URL, API_KEY)>>,
                    !.got = <<resp>>, !.res = res, !.pc = "done"]
       IN single' = [s EXCEPT !.signals =
              IF res.kind = "return" THEN <<Success(res.value)>>
              ELSE <<Failure(<<>>, res.exc, Str(res))>>]
    /\ UNCHANGED <<program, var_url, var_key, csv_data, var_row_count, tree,
                   btn_push_csv, uiQueue, log, lastDialog, progress, loads, run>>

\* ----------------------------------------------------------- specification
Init ==
    /\ program \in {"desktop", "cli", "web"}
    /\ var_url = DEFAULT_BASE_URL
    /\ var_key = DEFAULT_API_KEY
    /\ csv_data = <<>>
    /\ var_row_count = 0
    /\ tree = <<>>
    /\ btn_push_csv = "disabled"
    /\ uiQueue = <<>>
    /\ log = <<>>
    /\ lastDialog = "none"
    /\ progress = <<>>
    /\ loads = 0
    /\ run = [w \in Workers |-> IdleRun]
    /\ single = IdleSingle

Next ==
    \/ \E cfg \in ConfigChoices : EditConfig(cfg)
    \/ \E path \in FileNames : LoadCsv(path)
    \/ PushCsv
    \/ ClearLog
    \/ RunCallback
    \/ \E customers \in CliInputs : CliMain(customers)
    \/ \E path \in FileNames : WebUpload(path)
    \/ WebPush
    \/ \E w \in Workers : StartRecord(w)
    \/ \E w \in Workers : \E resp \in Pending(w) : HandleResponse(w, resp)
    \/ \E w \in Workers : Finish(w)
    \/ \E form \in Forms : SubmitSingle(form)
    \/ \E resp \in SinglePending : SingleResponse(resp)
    \/ \E form \in Forms : WebSubmit(form)
    \/ \E customer \in {Alice, Charlie} : CliPushCustomer(customer)

Spec == Init /\ [][Next]_vars

\* ------------------------------------------------------------ properties
\* a run that will take no further step
Stopped(r) == r.pc \in {"done", "crashed"}

\* record j of the run was sent to the endpoint
Posted(r, j) == \E p \in 1..Len(r.posts) : r.posts[p].index = j

\* requests.post failed at transport level: no HTTP response
IsTransportFailure(resp) == resp.kind = "error"

IsNon201(resp) == resp.kind = "http" /\ resp.status # 201

\* a 201 whose body parses and holds id, first_name and last_name
IsGood201(resp) ==
    resp.kind = "http" /\ resp.status = 201 /\ resp.parses /\ ~ReadsRaise(resp.obj)

\* a 201 whose body does not parse or lacks one of the three keys
IsMalformed201(resp) ==
    resp.kind = "http" /\ resp.status = 201 /\ (~resp.parses \/ ReadsRaise(resp.obj))

\* the per-record outcome lines among the lines a run wrote
IsCreatedLine(l) == l.kind \in {"Created", "[OK] Customer created"}

IsFailedLine(l) == l.kind \in {"Failed", "Skipping record"}

Outcomes(r) == SelectSeq(r.out, LAMBDA l : IsCreatedLine(l) \/ IsFailedLine(l))

\* C1: a transport failure on record k does not abort the run: no
\* exception leaves it, records k+1..N are attempted and a run that has
\* stopped has reached its completion step.
C1_TransportFailureIsolated ==
    \A w \in Workers : LET r == run[w] IN
        \A k \in 1..Len(r.got) :
            IsTransportFailure(r.got[k]) =>
                /\ r.exc = ""
                /\ Stopped(r) =>
                      /\ r.pc = "done"
                      /\ \A j \in (k + 1)..Len(r.customers) : Posted(r, j)

\* C2: a run that has stopped produced exactly N per-record outcomes, the
\* outcome at position i being that of input record i.
C2_OutcomesAligned ==
    \A w \in Workers : LET r == run[w] IN
        Stopped(r) =>
            /\ Len(Outcomes(r)) = Len(r.customers)
            /\ Len(r.got) = Len(r.customers)
            /\ \A n \in 1..Len(r.customers) :
                   IsCreatedLine(Outcomes(r)[n]) <=> IsGood201(r.got[n])

C4_RejectionIsolated ==
    \A w \in Workers : LET r == run[w] IN
        \A k \in 1..Len(r.got) :
            (IsNon201(r.got[k]) /\ Stopped(r)) =>
                /\ \A j \in (k + 1)..Len(r.customers) : Posted(r, j)
                /\ OkCount(r) = Cardinality({j \in 1..Len(r.got) : IsGood201(r.got[j])})

\* C5: a malformed 201 is a classified outcome of its record and does not
\* stop the run.
C5_Malformed201Classified ==
    \A w \in Workers : LET r == run[w] IN
        \A k \in 1..Len(r.got) :
            IsMalformed201(r.got[k]) =>
                /\ r.pc # "crashed"
                /\ Len(Outcomes(r)) >= k
                /\ IsFailedLine(Outcomes(r)[k])

C7_EveryRunCompletes ==
    \A w \in Workers : run[w].pc \in {"unborn", "loop", "post", "done"}

\* C8: records are submitted in input order, one at a time: the p-th
\* request of a run is for record p, a request leaves only when every
\* earlier one has produced its result, so at most one is outstanding.
C8_OneAtATimeInOrder ==
    \A w \in Workers : LET r == run[w] IN
        /\ \A p \in 1..Len(r.posts) : r.posts[p].index = p
        /\ Len(r.posts) - Len(r.got) \in {0, 1}
        /\ (Len(r.posts) - Len(r.got) = 1) <=> (r.pc = "post")

\* C8 witness: the request for record 2 is outstanding, the result of
\* record 1 being known.
C8_Witness ==
    \E w \in Workers : LET r == run[w] IN
        r.pc = "post" /\ Len(r.posts) = 2 /\ Len(r.got) = 1

\* C9: one network call per push_customer invocation and no retry: no
\* record is sent twice and a run never makes more than N calls.
C9_AtMostOncePerRecord ==
    \A w \in Workers : LET r == run[w] IN
        /\ Len(r.posts) <= Len(r.customers)
        /\ \A p, q \in 1..Len(r.posts) :
               r.posts[p].index = r.posts[q].index => p = q
        /\ Len(r.got) <= Len(r.posts)

\* C9 witness: a run of two records completed with two calls, the first
\* of which was rejected.
C9_Witness ==
    \E w \in Workers : LET r == run[w] IN
        /\ r.pc = "done"
        /\ Len(r.customers) = 2 /\ Len(r.posts) = 2
        /\ IsNon201(r.got[1])

\* C10: one outcome event per record, in the order 1..N, each emitted
\* before the next record is submitted: the run has written i - 1 outcome
\* lines when it is at record i, and N of them when it has stopped.
C10_OneEventPerRecord ==
    \A w \in Workers : LET r == run[w] IN
        /\ Len(Outcomes(r)) = r.i - 1
        /\ Stopped(r) => Len(Outcomes(r)) = Len(r.customers)

\* the records of a run that were answered HTTP 201
Count201(r) ==
    Cardinality({j \in 1..Len(r.got) : r.got[j].kind = "http" /\ r.got[j].status = 201})

\* C11: at completion the reported total is N and the reported created
\* count is the number of records answered HTTP 201 (N exactly when every
\* record was created); during the run the count never exceeds the number
\* of records processed so far and never decreases.
C11_TallyCounts ==
    /\ [](\A w \in Workers : LET r == run[w] N == Len(r.customers) IN
             /\ OkCount(r) <= Len(r.got)
             /\ OkCount(r) <= N
             /\ r.pc = "done" =>
                   /\ Len(r.got) = N
                   /\ OkCount(r) = Count201(r)
                   /\ (OkCount(r) = N) <=> (\A j \in 1..N : IsGood201(r.got[j]))
                   /\ program \in {"desktop", "cli"} =>
                         /\ r.out[Len(r.out)].total = N
                         /\ r.out[Len(r.out)].id = Count201(r))
    /\ [][\A w \in Workers : OkCount(run'[w]) >= OkCount(run[w])]_vars

\* C11 witness: a run of two records completed, one created and one
\* rejected.
C11_Witness ==
    \E w \in Workers : LET r == run[w] IN
        /\ r.pc = "done"
        /\ Len(r.customers) = 2
        /\ OkCount(r) = 1
        /\ \E j \in 1..2 : IsNon201(r.got[j])

\* a field of the form is empty after trimming: it holds blanks only
IsBlank(text) == \A n \in 1..Len(text) : text[n] = " "

\* the place of a field in the canonical order
Pos(f) == CHOOSE n \in 1..9 :
    <<"first_name", "last_name", "road", "city", "state", "zip", "country",
      "phone", "dob">>[n] = f

\* the submission was made through a form (desktop, web), which validates
ThroughForm == program \in {"desktop", "web"} /\ single.pc # "idle"

Reported(missing) ==
    IF program = "desktop"
    THEN [n \in 1..Len(missing) |->
             CHOOSE f \in FieldSet : Label(f) = missing[n]]
    ELSE missing

\* C13: a form with a field absent or empty after trimming is invalid:
\* the validator reports exactly the empty fields, in the canonical order
\* (all nine when every field is empty), and no network call is made.
C13_InvalidListsEmptyFields ==
    (ThroughForm /\ \E f \in FieldSet : IsBlank(single.form[f])) =>
        /\ single.pc = "done"
        /\ single.posts = <<>> /\ single.got = <<>>
        /\ Len(single.signals) = 1
        /\ single.signals[1].kind = "failure"
        /\ single.signals[1].missing = single.missing
        /\ LET m == Reported(single.missing) IN
           /\ {m[n] : n \in 1..Len(m)} = {f \in FieldSet : IsBlank(single.form[f])}
           /\ \A a, b \in 1..Len(m) : a < b => Pos(m[a]) < Pos(m[b])
           /\ (\A f \in FieldSet : IsBlank(single.form[f])) => Len(m) = 9

\* C13 witness: the form with a blank city and no date of birth was
\* submitted; two fields are reported.
C13_Witness ==
    /\ ThroughForm
    /\ single.form["city"] = <<" ">>
    /\ Len(single.missing) = 2

\* `t` is `s` without its leading and trailing blanks
IsTrimOf(t, s) ==
    /\ t = <<>> \/ (t[1] # " " /\ t[Len(t)] # " ")
    /\ \E a \in 0..Len(s) :
          /\ a + Len(t) <= Len(s)
          /\ SubSeq(s, a + 1, a + Len(t)) = t
          /\ \A n \in (1..a) \cup ((a + Len(t) + 1)..Len(s)) : s[n] = " "

\* C14: a form whose nine fields are all non-empty after trimming is
\* accepted and the record handed to push_customer has every value
\* trimmed; a request is issued if and only if the form is valid.
C14_ValidIsTrimmedAndSent ==
    ThroughForm =>
        /\ (single.posts # <<>>) <=> (\A f \in FieldSet : ~IsBlank(single.form[f]))
        /\ single.posts # <<>> =>
              /\ single.missing = <<>>
              /\ Len(single.posts) = 1
              /\ \A f \in FieldSet :
                     IsTrimOf(single.posts[1].body[f], single.form[f])

\* C14 witness: the form typed with blanks around the first name was sent,
\* with the first name trimmed.
C14_Witness ==
    /\ ThroughForm
    /\ single.form["first_name"] = <<" ", "b", " ">>
    /\ single.posts # <<>>
    /\ single.posts[1].body["first_name"] = <<"b">>

\* C15: a run keeps the base URL, API key and records it was started
\* with: every request carries them, no step changes them (editing the
\* configuration, loading a file and starting a submission included), and
\* a step of one submission changes no other submission.
C15_RunKeepsWhatItCaptured ==
    /\ [](\A w \in Workers : LET r == run[w] IN
             \A p \in 1..Len(r.posts) :
                 /\ r.posts[p].url = r.base_url \o <<"/api/customers">>
                 /\ r.posts[p].key = r.api_key
                 /\ r.posts[p].body = r.customers[p])
    /\ [][\A w \in Workers :
             /\ (run[w].pc = "unborn" /\ run'[w].pc # "unborn" /\ program # "cli") =>
                    /\ run'[w].customers = csv_data
                    /\ run'[w].base_url \o <<"/">> \in {var_url, var_url \o <<"/">>}
             /\ run[w].pc # "unborn" =>
                    /\ run'[w].customers = run[w].customers
                    /\ run'[w].base_url = run[w].base_url
                    /\ run'[w].api_key = run[w].api_key
                    /\ \A v \in Workers \ {w} :
                           run'[w] # run[w] => run'[v] = run[v]
                    /\ run'[w] # run[w] =>
                           (single' = single /\ var_url' = var_url
                            /\ var_key' = var_key /\ csv_data' = csv_data)
             /\ single' # single => run' = run]_vars

\* C15 witness: the second request of a run has left after the operator
\* changed the Base URL and loaded another file.
C15_Witness ==
    \E w \in Workers : LET r == run[w] IN
        /\ Len(r.posts) = 2
        /\ rstripSlash(var_url) # r.base_url
        /\ csv_data # r.customers

\* C16: an empty batch makes no network call and writes no progress or
\* outcome line; it completes with total 0 and created count 0.  The
\* forms start no batch on empty data.
C16_EmptyBatch ==
    \A w \in Workers : LET r == run[w] IN
        /\ (r.pc # "unborn" /\ program # "cli") => r.customers # <<>>
        /\ (r.pc # "unborn" /\ r.customers = <<>>) =>
              /\ r.pc \in {"loop", "done"}
              /\ r.posts = <<>> /\ r.got = <<>>
              /\ Outcomes(r) = <<>>
              /\ OkCount(r) = 0
              /\ r.pc = "loop" => r.out = <<>>
              /\ r.pc = "done" =>
                    /\ Len(r.out) = 1
                    /\ r.out[1].kind = "Done."
                    /\ r.out[1].total = 0
                    /\ r.out[1].id = 0

\* C16 witness: push_batch([]) has returned.
C16_Witness ==
    \E w \in Workers : run[w].pc = "done" /\ run[w].customers = <<>>

\* the record a row stands for: the nine fields, a field the row has no
\* value for being empty
ExpectedRecord(row) ==
    [c \in FieldSet |->
        IF c \in DOMAIN row.cols /\ c \notin row.none THEN strip(row.cols[c])
        ELSE <<>>]

\* C17: loading a readable file with data rows never fails on a row that
\* lacks a value for a required column: every row becomes a record of
\* nine fields, the missing value being the empty string.
C17_LoadFillsMissing ==
    [][\A path \in FileNames :
          ((LoadCsv(path) \/ WebUpload(path))
           /\ Readable(path) /\ Rows(path) # <<>>) =>
              /\ Len(csv_data') = Len(Rows(path))
              /\ \A n \in 1..Len(Rows(path)) :
                     /\ DOMAIN csv_data'[n] = FieldSet
                     /\ csv_data'[n] = ExpectedRecord(Rows(path)[n])]_vars

\* C18: on the desktop at most one batch is in progress: between Push All
\* Records and the run of its done callback (or the death of its thread)
\* no second batch is started.
C18_OneBatchAtATime ==
    program = "desktop" =>
        Cardinality({w \in Workers : Active(run[w])}) <= 1

\* the "Batch complete" lines a run wrote: one per call of done_cb
DoneCalls(r) == SelectSeq(r.out, LAMBDA l : l.kind = "Batch complete")

\* C19: a desktop batch whose thread has ended has called done exactly
\* once, so that the button is enabled again: no thread ends without it.
C19_DoneCalledOnce ==
    program = "desktop" =>
        \A w \in Workers : LET r == run[w] IN
            /\ Len(DoneCalls(r)) <= 1
            /\ r.pc \notin {"unborn", "loop", "post"} => Len(DoneCalls(r)) = 1

\* C20: the desktop worker emits its events in a fixed order: Pushing i,
\* then the outcome of record i, then Pushing i + 1; the done call comes
\* after the outcome of record N only; the created counter counts the
\* records whose ok event was emitted.
C20_EventOrder ==
    program = "desktop" =>
        \A w \in Workers : LET r == run[w] N == Len(r.customers) IN
            /\ \A n \in 1..Len(r.out) :
                  IF n = 2 * N + 1 THEN r.out[n].kind = "Batch complete"
                  ELSE IF n % 2 = 1
                  THEN /\ r.out[n].kind = "Pushing"
                       /\ r.out[n].index = (n + 1) \div 2
                  ELSE IsCreatedLine(r.out[n]) \/ IsFailedLine(r.out[n])
            /\ Len(r.out) <= 2 * N + 1
            /\ r.pc = "done" <=> (r.pc # "unborn" /\ Len(r.out) = 2 * N + 1)
            /\ r.ok = Len(SelectSeq(r.out, IsCreatedLine))
            /\ \A n \in 1..Len(r.out) :
                  (n % 2 = 0 /\ n <= 2 * N) =>
                      (r.out[n].tag = "ok" <=> IsGood201(r.got[n \div 2]))

\* C20 witness: a desktop batch of two records is done, one record
\* created and one failed.
C20_Witness ==
    /\ program = "desktop"
    /\ \E w \in Workers : LET r == run[w] IN
          /\ r.pc = "done"
          /\ Len(r.out) = 5
          /\ r.ok = 1

====
